---- MODULE Spec2Model ----
(***************************************************************************)
(* Model of bigcommerce/api/resources/resource.py: the paginated           *)
(* enumeration of ResourceAccessor.get_all, the field container of         *)
(* ResourceObject (_fields / _updates) with lazy sub-resource inflation,   *)
(* and the URLs that ResourceAccessor and ResourceObject address.          *)
(*                                                                         *)
(* The specifications of the module:                                       *)
(*   SpecGetAll    one get_all generator driven by its consumer            *)
(*   SpecAccessor  one ResourceAccessor under create / get / delete        *)
(*   SpecObject    one ResourceObject under reads, writes, update,         *)
(*                 delete and refresh                                      *)
(*   SpecObjectNoRefresh   the same object, refresh never called           *)
(* Attribute reads are those Python routes to __getattr__: names with no   *)
(* ordinary instance or class attribute.                                   *)
(* Strings (URLs, ids) are sequences of one-character strings.             *)
(***************************************************************************)
EXTENDS Integers, Sequences, FiniteSets, TLC

\* ------------------------------------------------------------------ bounds
MaxN == 10         \* largest server collection enumerated by get_all
MaxStart == 6      \* largest start argument
MaxLimit == 4      \* largest limit argument
MaxPer == 4        \* largest small max_per_page argument
MaxUrlLen == 5     \* longest accessor base URL, in characters
MaxId == 2         \* largest record id / parent id

\* ------------------------------------------------------- program constants
maxint == 2147483647   \* sys.maxint, the "unbounded" sentinel
ApiPageCap == 250      \* the API's hard cap on the page size
BigPer == ApiPageCap + 1   \* a max_per_page argument above the cap

Min(a, b) == IF a <= b THEN a ELSE b

\* Python's None, a value distinct from every id.
None == -1

\* No ResourceObject obtained yet.
NoObj == [how |-> "none", id |-> 0, url |-> << >>]

\* An empty dict ({} of __init__, what _updates.clear() leaves).
EmptyMap == << >>

\* No value (the result of an operation that returns none).
NoValue == [kind |-> "none", v |-> "", url |-> << >>]

\* The last-operation record of an object nothing was done to.
NoOp == [name |-> "init", field |-> "", outcome |-> "none", result |-> NoValue]

VARIABLES
  \* ---- get_all generator (SpecGetAll)
  N,                \* number of records the server holds
  argStart,         \* the start argument
  argLimit,         \* the limit argument
  argMaxPerPage,    \* the max_per_page argument
  start,            \* local: 0-based start
  requested_items,  \* local
  max_per_page,     \* local: effective page size
  current_page,     \* local
  offset,           \* local
  page_index,       \* local
  pagebuf,          \* records of the fetched page not yet iterated
  gpc,              \* generator position
  yielded,          \* records handed to the consumer so far
  fetches,          \* pages requested from the transport, in order
  signal,           \* how the transport answered the last page fetch
  \* ---- ResourceAccessor (SpecAccessor)
  baseUrl,          \* self._url of the accessor
  aobj,             \* the ResourceObject last obtained from the accessor
  aop,              \* the last operation and its argument
  acalls,           \* transport calls the last operation issued
  aerr,             \* how the last operation ended
  \* ---- ResourceObject (SpecObject, SpecObjectNoRefresh)
  writeable,        \* class table: writable names (empty = unrestricted)
  single,           \* class table: sub_resources["sub"]["single"]
  committed,        \* self._fields
  pending,          \* self._updates
  op,               \* the last operation: name, field, outcome, result
  ocalls,           \* transport calls the last operation issued
  traced,           \* does this run keep the history of unrecognized writes?
  unrecognized,     \* names written while not a key of _fields (line 296)
  ninfl             \* inflation fetches answered so far (saturating)

gvars == <<N, argStart, argLimit, argMaxPerPage, start, requested_items,
           max_per_page, current_page, offset, page_index, pagebuf, gpc,
           yielded, fetches, signal>>

avars == <<baseUrl, aobj, aop, acalls, aerr>>

ovars == <<writeable, single, committed, pending, op, ocalls, traced,
           unrecognized, ninfl>>

vars == <<gvars, avars, ovars>>

notG == <<avars, ovars>>   \* what get_all leaves alone
notA == <<gvars, ovars>>   \* what the accessor operations leave alone
notO == <<gvars, avars>>   \* what the object operations leave alone

\* =====================================================================
\* ResourceAccessor.get_all
\* =====================================================================

\* The server: page p of size s over records 1..n (empty past the end).
ServerPage(n, p, s) ==
  LET lo == (p - 1) * s + 1
      hi == Min(p * s, n)
  IN  IF lo > hi THEN << >> ELSE [i \in 1 .. (hi - lo + 1) |-> lo + i - 1]

\* mutant: start is taken as 0-based already.
ZeroBasedStart_NoShift(st) == st

\* line 101: start -= 1
ZeroBasedStart(st) == st - 1

\* line 103: requested_items = limit if limit else sys.maxint
RequestedItems(lim) == IF lim # 0 THEN lim ELSE maxint

\* lines 104-105
EffectivePageSize(mpp, req) == Min(req, Min(mpp, ApiPageCap))

\* mutant: the enumeration starts one page further on.
FirstPage_Next(st, mpp) == (st \div mpp) + 1

\* line 107: current_page = int(start / max_per_page)
FirstPage(st, mpp) == st \div mpp

\* line 108: offset = start % max_per_page
WithinPageOffset(st, mpp) == st % mpp

\* mutant: the offset is never reset.
OffsetAfterEligible_Kept(off) == off

\* line 118: offset = 0 once the first eligible record is met
OffsetAfterEligible(off) == 0

\* mutant: the handler leaves the request count alone.
OnEmptyResponse_Ignored(req) == req

\* lines 131-132: EmptyResponseWarning is caught: requested_items = 0
OnEmptyResponse(req) == 0

\* mutant: a short page does not end the enumeration.
AfterPage_Continue(pidx, mpp, req) == req

\* lines 128-129: a short page ends the enumeration
AfterPage(pidx, mpp, req) == IF pidx < mpp THEN 0 ELSE req

GetAllInit ==
  /\ N \in 0 .. MaxN
  /\ argStart \in 1 .. MaxStart
  /\ argLimit \in 0 .. MaxLimit
  /\ argMaxPerPage \in (1 .. MaxPer) \cup {BigPer}
  /\ start = 0
  /\ requested_items = 0
  /\ max_per_page = 0
  /\ current_page = 0
  /\ offset = 0
  /\ page_index = 0
  /\ pagebuf = << >>
  /\ gpc = "created"
  /\ yielded = << >>
  /\ fetches = << >>
  /\ signal = "none"
  \* no ResourceObject is exercised
  /\ writeable = {} /\ single = FALSE /\ committed = EmptyMap
  /\ pending = EmptyMap /\ op = NoOp /\ ocalls = << >> /\ ninfl = 0
  /\ traced = FALSE /\ unrecognized = {}
  \* the accessor of SpecAccessor is not exercised
  /\ baseUrl = << >>
  /\ aobj = NoObj
  /\ aop = [name |-> "init", arg |-> None]
  /\ acalls = << >>
  /\ aerr = "none"

\* First next() of the consumer: lines 98-108 run up to the while test.
Begin ==
  /\ gpc = "created"
  /\ start' = ZeroBasedStart(argStart)
  /\ requested_items' = RequestedItems(argLimit)
  /\ max_per_page' = EffectivePageSize(argMaxPerPage, requested_items')
  /\ current_page' = FirstPage(start', max_per_page')
  /\ offset' = WithinPageOffset(start', max_per_page')
  /\ gpc' = "while"
  /\ UNCHANGED signal
  /\ UNCHANGED notG
  /\ UNCHANGED <<N, argStart, argLimit, argMaxPerPage, page_index, pagebuf,
                 yielded, fetches>>

\* line 110 false: the generator returns (StopIteration).
Finish ==
  /\ gpc = "while"
  /\ requested_items = 0
  /\ gpc' = "done"
  /\ UNCHANGED signal
  /\ UNCHANGED notG
  /\ UNCHANGED <<N, argStart, argLimit, argMaxPerPage, start, requested_items,
                 max_per_page, current_page, offset, page_index, pagebuf,
                 yielded, fetches>>

\* lines 111-116: the page is fetched and the transport returns records
\* (possibly none).
FetchPage ==
  /\ gpc = "while"
  /\ requested_items # 0
  /\ current_page' = current_page + 1
  /\ page_index' = 0
  /\ fetches' = Append(fetches, current_page')
  /\ pagebuf' = ServerPage(N, current_page', max_per_page)
  /\ gpc' = "for"
  /\ signal' = "page"
  /\ UNCHANGED notG
  /\ UNCHANGED <<N, argStart, argLimit, argMaxPerPage, start, requested_items,
                 max_per_page, offset, yielded>>

\* lines 111-116, 131-132: the transport signals EmptyResponseWarning for a
\* page that holds nothing.
FetchEmptyResponse ==
  /\ gpc = "while"
  /\ requested_items # 0
  /\ ServerPage(N, current_page + 1, max_per_page) = << >>
  /\ current_page' = current_page + 1
  /\ page_index' = 0
  /\ fetches' = Append(fetches, current_page')
  /\ requested_items' = OnEmptyResponse(requested_items)
  /\ gpc' = "while"
  /\ signal' = "empty"
  /\ UNCHANGED notG
  /\ UNCHANGED <<N, argStart, argLimit, argMaxPerPage, start, max_per_page,
                 offset, pagebuf, yielded>>

\* lines 111-116, 133-134: any other transport failure propagates.
FetchRaises ==
  /\ gpc = "while"
  /\ requested_items # 0
  /\ current_page' = current_page + 1
  /\ page_index' = 0
  /\ fetches' = Append(fetches, current_page')
  /\ gpc' = "raised"
  /\ signal' = "raised"
  /\ UNCHANGED notG
  /\ UNCHANGED <<N, argStart, argLimit, argMaxPerPage, start, requested_items,
                 max_per_page, offset, pagebuf, yielded>>

\* lines 116-117, 125-126: a record before the start offset is skipped.
SkipRecord ==
  /\ gpc = "for"
  /\ pagebuf # << >>
  /\ ~(offset <= page_index)
  /\ page_index' = page_index + 1
  /\ pagebuf' = Tail(pagebuf)
  /\ UNCHANGED signal
  /\ UNCHANGED notG
  /\ UNCHANGED <<N, argStart, argLimit, argMaxPerPage, start, requested_items,
                 max_per_page, current_page, offset, gpc, yielded, fetches>>

\* lines 116-124: an eligible record is yielded; the generator suspends.
YieldRecord ==
  /\ gpc = "for"
  /\ pagebuf # << >>
  /\ offset <= page_index
  /\ requested_items # 0
  /\ offset' = OffsetAfterEligible(offset)
  /\ requested_items' = requested_items - 1
  /\ page_index' = page_index + 1
  /\ yielded' = Append(yielded, Head(pagebuf))
  /\ pagebuf' = Tail(pagebuf)
  /\ gpc' = "yield"
  /\ UNCHANGED signal
  /\ UNCHANGED notG
  /\ UNCHANGED <<N, argStart, argLimit, argMaxPerPage, start, max_per_page,
                 current_page, fetches>>

\* The consumer asks for the next item: the generator resumes after line 124.
Resume ==
  /\ gpc = "yield"
  /\ gpc' = "for"
  /\ UNCHANGED signal
  /\ UNCHANGED notG
  /\ UNCHANGED <<N, argStart, argLimit, argMaxPerPage, start, requested_items,
                 max_per_page, current_page, offset, page_index, pagebuf,
                 yielded, fetches>>

\* lines 116-120, 128-129: an eligible record arrives with nothing left to
\* request: break, then the short-page test.
BreakPage ==
  /\ gpc = "for"
  /\ pagebuf # << >>
  /\ offset <= page_index
  /\ requested_items = 0
  /\ offset' = OffsetAfterEligible(offset)
  /\ requested_items' = AfterPage(page_index, max_per_page, requested_items)
  /\ pagebuf' = << >>
  /\ gpc' = "while"
  /\ UNCHANGED signal
  /\ UNCHANGED notG
  /\ UNCHANGED <<N, argStart, argLimit, argMaxPerPage, start, max_per_page,
                 current_page, page_index, yielded, fetches>>

\* lines 116, 128-129: the page is exhausted, then the short-page test.
EndPage ==
  /\ gpc = "for"
  /\ pagebuf = << >>
  /\ requested_items' = AfterPage(page_index, max_per_page, requested_items)
  /\ gpc' = "while"
  /\ UNCHANGED signal
  /\ UNCHANGED notG
  /\ UNCHANGED <<N, argStart, argLimit, argMaxPerPage, start, max_per_page,
                 current_page, offset, page_index, pagebuf, yielded, fetches>>

GetAllNext ==
  \/ Begin
  \/ Finish
  \/ FetchPage
  \/ FetchEmptyResponse
  \/ FetchRaises
  \/ SkipRecord
  \/ YieldRecord
  \/ Resume
  \/ BreakPage
  \/ EndPage

\* =====================================================================
\* Strings
\* =====================================================================

Chars == {"/", "A", "B"}

\* All strings of at most n characters.
Strings(n) == UNION {[1 .. k -> Chars] : k \in 0 .. n}

Digit(d) == CASE d = 0 -> "0" [] d = 1 -> "1" [] d = 2 -> "2" [] d = 3 -> "3"
              [] d = 4 -> "4" [] d = 5 -> "5" [] d = 6 -> "6" [] d = 7 -> "7"
              [] d = 8 -> "8" [] d = 9 -> "9"

\* str(i) / "{}".format(i) / "%s" % i of a non-negative integer.
RECURSIVE Str(_)
Str(i) == IF i < 10 THEN <<Digit(i)>> ELSE Str(i \div 10) \o <<Digit(i % 10)>>

\* s.split(sep) for a one-character separator.
RECURSIVE SplitAcc(_, _, _, _)
SplitAcc(s, sep, cur, acc) ==
  IF s = << >> THEN Append(acc, cur)
  ELSE IF Head(s) = sep THEN SplitAcc(Tail(s), sep, << >>, Append(acc, cur))
  ELSE SplitAcc(Tail(s), sep, Append(cur, Head(s)), acc)

Split(s, sep) == SplitAcc(s, sep, << >>, << >>)

\* "%s/%s" % (a, b) and "{}/{}".format(a, b)
SlashJoin(a, b) == a \o <<"/">> \o b

\* =====================================================================
\* ResourceAccessor: create, get, get_all items, delete_from_id, and
\* ResourceObject.delete on the object obtained
\* =====================================================================

ParentIds == {None} \cup (0 .. MaxId)
RecordIds == 1 .. MaxId

\* line 163: `if parent_id:` -- None and 0 are false.
Truthy(pid) == pid # None /\ pid # 0

\* mutant: the unpacking tolerates extra parts.
UnpackOk_AtLeast(parts) == Len(parts) >= 3

\* line 164: the tuple unpacking needs exactly three parts.
UnpackOk(parts) == Len(parts) = 3

\* lines 163-166: the URL create writes to; ok = FALSE when line 164 raises
\* ValueError (the spec's MalformedUrlError).
CreateUrl(url, pid) ==
  IF Truthy(pid)
  THEN LET parts == Split(url, "/")
       IN  IF UnpackOk(parts)
           THEN [ok |-> TRUE,
                 url |-> <<"/">> \o parts[2] \o <<"/">> \o Str(pid)
                           \o <<"/">> \o parts[3]]
           ELSE [ok |-> FALSE, url |-> << >>]
  ELSE [ok |-> TRUE, url |-> url]

\* line 217: self._url = "%s/%s" % (url, self.id)
SelfUrl(url, id) == SlashJoin(url, Str(id))

\* line 175: "{}/{}".format(self._url, id)
DeleteFromIdUrl(url, id) == SlashJoin(url, Str(id))

\* line 140: url = "%s/%s" % (self._url, id)
GetUrl(url, id) == SlashJoin(url, id)

AccessorInit ==
  /\ baseUrl \in Strings(MaxUrlLen)
  /\ aobj = NoObj
  /\ aop = [name |-> "init", arg |-> None]
  /\ acalls = << >>
  /\ aerr = "none"
  \* no ResourceObject is exercised
  /\ writeable = {} /\ single = FALSE /\ committed = EmptyMap
  /\ pending = EmptyMap /\ op = NoOp /\ ocalls = << >> /\ ninfl = 0
  /\ traced = FALSE /\ unrecognized = {}
  \* no get_all generator is exercised
  /\ N = 0 /\ argStart = 1 /\ argLimit = 0 /\ argMaxPerPage = 1
  /\ start = 0 /\ requested_items = 0 /\ max_per_page = 0
  /\ current_page = 0 /\ offset = 0 /\ page_index = 0
  /\ pagebuf = << >> /\ gpc = "idle" /\ yielded = << >> /\ fetches = << >>
  /\ signal = "none"

\* lines 163-164: create with a parent_id raises before any transport call.
CreateMalformed(pid) ==
  /\ ~CreateUrl(baseUrl, pid).ok
  /\ aop' = [name |-> "create", arg |-> pid]
  /\ acalls' = << >>
  /\ aerr' = "MalformedUrl"
  /\ UNCHANGED <<baseUrl, aobj>>
  /\ UNCHANGED notA

\* lines 163-168: create writes and wraps the record the server returns.
CreateOk(pid, newId) ==
  /\ CreateUrl(baseUrl, pid).ok
  /\ aop' = [name |-> "create", arg |-> pid]
  /\ acalls' = <<[verb |-> "POST", url |-> CreateUrl(baseUrl, pid).url]>>
  /\ aerr' = "none"
  /\ aobj' = [how |-> "create", id |-> newId,
              url |-> SelfUrl(CreateUrl(baseUrl, pid).url, newId)]
  /\ UNCHANGED baseUrl
  /\ UNCHANGED notA

\* lines 163-167: the transport raises during create.
CreateRaises(pid) ==
  /\ CreateUrl(baseUrl, pid).ok
  /\ aop' = [name |-> "create", arg |-> pid]
  /\ acalls' = <<[verb |-> "POST", url |-> CreateUrl(baseUrl, pid).url]>>
  /\ aerr' = "Transport"
  /\ UNCHANGED <<baseUrl, aobj>>
  /\ UNCHANGED notA

\* lines 140-142: get(id); the object is built from the record returned.
Get(id, recId) ==
  /\ aop' = [name |-> "get", arg |-> id]
  /\ acalls' = <<[verb |-> "GET", url |-> GetUrl(baseUrl, Str(id))]>>
  /\ aerr' = "none"
  /\ aobj' = [how |-> "get", id |-> recId, url |-> SelfUrl(baseUrl, recId)]
  /\ UNCHANGED baseUrl
  /\ UNCHANGED notA

\* lines 82, 116, 124: get_all wraps one record of a fetched page.
GetAllItem(recId) ==
  /\ aop' = [name |-> "get_all", arg |-> None]
  /\ acalls' = <<[verb |-> "GET", url |-> baseUrl]>>
  /\ aerr' = "none"
  /\ aobj' = [how |-> "get_all", id |-> recId, url |-> SelfUrl(baseUrl, recId)]
  /\ UNCHANGED baseUrl
  /\ UNCHANGED notA

\* line 175: delete_from_id(id)
DeleteFromId(id) ==
  /\ aop' = [name |-> "delete_from_id", arg |-> id]
  /\ acalls' = <<[verb |-> "DELETE", url |-> DeleteFromIdUrl(baseUrl, id)]>>
  /\ aerr' = "none"
  /\ UNCHANGED <<baseUrl, aobj>>
  /\ UNCHANGED notA

\* line 303: delete() on the object last obtained.
ObjDelete ==
  /\ aobj # NoObj
  /\ aop' = [name |-> "obj.delete", arg |-> None]
  /\ acalls' = <<[verb |-> "DELETE", url |-> aobj.url]>>
  /\ aerr' = "none"
  /\ UNCHANGED <<baseUrl, aobj>>
  /\ UNCHANGED notA

AccessorNext ==
  \/ \E pid \in ParentIds : CreateMalformed(pid)
  \/ \E pid \in ParentIds, newId \in RecordIds : CreateOk(pid, newId)
  \/ \E pid \in ParentIds : CreateRaises(pid)
  \/ \E id \in RecordIds, recId \in RecordIds : Get(id, recId)
  \/ \E recId \in RecordIds : GetAllItem(recId)
  \/ \E id \in RecordIds : DeleteFromId(id)
  \/ ObjDelete

\* =====================================================================
\* ResourceObject: __getattr__, __setattr__, update, delete, refresh
\* =====================================================================

MaxInfl == 2   \* the inflation counter saturates here

\* Field names: the reserved id, a plain field, a read-only field and a
\* sub-resource field.
Names == {"id", "name", "ro", "sub"}

\* line 204: the class's read_only list
read_only == {"id", "ro"}

\* line 205: the keys of the class's sub_resources table
SubNames == {"sub"}

\* line 203: the writeable lists of the classes modelled
WriteableTables == {{}, {"name"}}

\* A field name as the characters of a URL segment.
NameStr(n) == IF n = "sub" THEN <<"s", "u", "b">> ELSE <<"f">>

\* line 217: the object was built from the collection "/A" and the id 1.
selfUrl == SelfUrl(<<"/", "A">>, 1)

\* The `resource` URLs the server embeds for a sub-resource: the one under
\* the object's own URL, and another one.
ResourceUrls == {SlashJoin(selfUrl, NameStr("sub")), <<"/", "B">>}

\* What a nested fetch can return (the content of the nested collection or
\* record changes over time).
Contents == {"x", "y"}

\* Values of fields.
Plain(s) == [kind |-> "plain", v |-> s, url |-> << >>]
Null == [kind |-> "null", v |-> "", url |-> << >>]
Dict == [kind |-> "dict", v |-> "d", url |-> << >>]
Raw(u) == [kind |-> "raw", v |-> "", url |-> u]
Absent == [kind |-> "absent", v |-> "", url |-> << >>]

\* line 258: Mapping(data), the dotted-access view of a dict
Mapping(d) == [d EXCEPT !.kind = "mapping"]

\* line 250: list(_con.get_all()) of the accessor at url u
ListOf(u, c) == [kind |-> "list", v |-> c, url |-> u]

\* lines 142, 217: the object get("") builds from the record (id rid)
ObjectOf(u, rid, c) == [kind |-> "object", v |-> c, url |-> SelfUrl(u, rid)]

\* lines 244, 257: isinstance(data, dict)
IsDict(d) == d.kind \in {"dict", "raw"}

IsRealization(d) == d.kind \in {"list", "object"}

\* The values the server sends for each field (Absent: the field is not in
\* the record).
FieldOptions(n) ==
  CASE n = "id" -> {Plain("1")}
    [] n = "name" -> {Absent, Plain("x"), Plain("y")}
    [] n = "ro" -> {Absent, Null, Dict}
    [] n = "sub" -> {Absent, Null} \cup {Raw(u) : u \in ResourceUrls}

ServerValues == UNION {FieldOptions(n) : n \in Names}

\* The JSON mappings the server may send for the record.
ServerRecords ==
  LET total == {t \in [Names -> ServerValues] :
                  \A n \in Names : t[n] \in FieldOptions(n)}
  IN  {[n \in {m \in Names : t[m] # Absent} |-> t[n]] : t \in total}

\* Values a caller assigns.
Written == {Plain("x"), Plain("y")}

\* d[n] = v on a dict
Put(d, n, v) == [k \in (DOMAIN d) \cup {n} |-> IF k = n THEN v ELSE d[k]]

\* A transport call: verb, URL, the data sent and the mapping returned.
Call(verb, url, payload, reply) ==
  [verb |-> verb, url |-> url, payload |-> payload, reply |-> reply]

\* mutant: the fields are consulted before the updates.
Resolve_FieldsFirst(fields, updates, n) ==
  IF n \in DOMAIN fields THEN "fields"
  ELSE IF n \in DOMAIN updates THEN "updates"
  ELSE "missing"

\* lines 230-234: where __getattr__ finds the name
Resolve(fields, updates, n) ==
  IF n \in DOMAIN updates THEN "updates"
  ELSE IF n \in DOMAIN fields THEN "fields"
  ELSE "missing"

\* line 196: the URL of the nested accessor (a str, or the dict's resource)
AccessorUrl(url) == url

\* lines 244, 249: the fetch that inflates a dict: the enumeration of the
\* nested accessor, or its get("").
InflationCall(data, isSingle) ==
  IF isSingle
  THEN Call("GET", GetUrl(AccessorUrl(data.url), << >>), EmptyMap, EmptyMap)
  ELSE Call("GET", AccessorUrl(data.url), EmptyMap, EmptyMap)

\* lines 250, 254: what the fetch realizes
Realize(url, isSingle, c, rid) ==
  IF isSingle THEN ObjectOf(AccessorUrl(url), rid, c)
  ELSE ListOf(AccessorUrl(url), c)

\* mutant: the realization is returned but not cached.
StoreField_NotStored(fields, n, val) == fields

\* lines 251, 254, 259, 276, 279: self._fields[name] = val
StoreField(fields, n, val) == Put(fields, n, val)

\* lines 244: does reading n inflate a sub-resource?
NeedsInflation(fields, updates, n) ==
  /\ Resolve(fields, updates, n) = "fields"
  /\ n \in SubNames
  /\ IsDict(fields[n])

\* lines 220-263: __getattr__(n) when no fetch is needed. The result is
\* [outcome, result, fields]: how the read ends, what it returns and the
\* _fields it leaves.
GetAttr(fields, updates, n) ==
  LET where == Resolve(fields, updates, n)
  IN  IF where = "updates"
      THEN [outcome |-> "value", result |-> updates[n], fields |-> fields]
      ELSE IF where = "missing"
      THEN [outcome |-> "UnknownField", result |-> NoValue, fields |-> fields]
      ELSE IF fields[n].kind = "null"
      THEN [outcome |-> "value", result |-> fields[n], fields |-> fields]
      ELSE IF IsDict(fields[n])
      THEN LET f2 == StoreField(fields, n, Mapping(fields[n]))
           IN  [outcome |-> "value", result |-> f2[n], fields |-> f2]
      ELSE [outcome |-> "value", result |-> fields[n], fields |-> fields]

\* lines 220-239, 256-261: a read that needs no fetch.
Read(n) ==
  /\ ~NeedsInflation(committed, pending, n)
  /\ LET r == GetAttr(committed, pending, n)
     IN  /\ op' = [name |-> "read", field |-> n, outcome |-> r.outcome,
                   result |-> r.result]
         /\ committed' = r.fields
  /\ ocalls' = << >>
  /\ UNCHANGED <<writeable, single, pending, ninfl, traced, unrecognized>>
  /\ UNCHANGED notO

\* lines 244-254, 261: the first read of a sub-resource field inflates it
\* and caches the realization.
ReadInflates(n, c, rid) ==
  /\ NeedsInflation(committed, pending, n)
  /\ LET f2 == StoreField(committed, n,
                          Realize(committed[n].url, single, c, rid))
     IN  /\ committed' = f2
         /\ op' = [name |-> "read", field |-> n, outcome |-> "value",
                   result |-> f2[n]]
  /\ ocalls' = <<InflationCall(committed[n], single)>>
  /\ ninfl' = Min(ninfl + 1, MaxInfl)
  /\ UNCHANGED <<writeable, single, pending, traced, unrecognized>>
  /\ UNCHANGED notO

\* lines 244-254: the transport raises during the inflation fetch.
ReadInflateRaises(n) ==
  /\ NeedsInflation(committed, pending, n)
  /\ op' = [name |-> "read", field |-> n, outcome |-> "Transport",
            result |-> NoValue]
  /\ ocalls' = <<InflationCall(committed[n], single)>>
  /\ UNCHANGED <<writeable, single, committed, pending, ninfl, traced, unrecognized>>
  /\ UNCHANGED notO

\* mutant: no name is read-only.
IsReadOnly_Never(n) == FALSE

\* line 291: name in self.read_only
IsReadOnly(n) == n \in read_only

\* mutant: every name is taken for a field of the record.
IsField_Always(fields, n) == TRUE

\* line 290: self._fields.has_key(name)
IsField(fields, n) == n \in DOMAIN fields

\* mutant: the writeable table is not consulted.
MayBuffer_Always(wr, n) == TRUE

\* line 293: not self.writeable or name in self.writeable
MayBuffer(wr, n) == wr = {} \/ n \in wr

\* lines 290-296: __setattr__(n, v): how the write ends and the _updates
\* it leaves.
SetAttr(fields, updates, wr, n, v) ==
  IF IsField(fields, n)
  THEN IF IsReadOnly(n)
       THEN [outcome |-> "ReadOnly", updates |-> updates]
       ELSE IF MayBuffer(wr, n)
       THEN [outcome |-> "buffered", updates |-> Put(updates, n, v)]
       ELSE [outcome |-> "ignored", updates |-> updates]
  ELSE [outcome |-> "ordinary", updates |-> updates]

\* lines 282-296: an attribute write.
Write(n, v) ==
  /\ LET w == SetAttr(committed, pending, writeable, n, v)
     IN  /\ pending' = w.updates
         /\ op' = [name |-> "write", field |-> n, outcome |-> w.outcome,
                   result |-> NoValue]
         /\ unrecognized' = IF traced /\ w.outcome = "ordinary"
                            THEN unrecognized \cup {n}
                            ELSE unrecognized
  /\ ocalls' = << >>
  /\ UNCHANGED <<writeable, single, committed, ninfl, traced>>
  /\ UNCHANGED notO

\* mutant: update() always goes to the network.
HasUpdates_Always(updates) == TRUE

\* line 310: if self._updates
HasUpdates(updates) == updates # EmptyMap

\* line 310 false: update() with nothing buffered.
UpdateNoop ==
  /\ ~HasUpdates(pending)
  /\ op' = [name |-> "update", field |-> "", outcome |-> "noop",
            result |-> NoValue]
  /\ ocalls' = << >>
  /\ UNCHANGED <<writeable, single, committed, pending, ninfl, traced, unrecognized>>
  /\ UNCHANGED notO

\* mutant: the response is merged into the fields.
FieldsAfterUpdate_Merged(fields, results) ==
  [k \in (DOMAIN fields) \cup (DOMAIN results) |->
     IF k \in DOMAIN results THEN results[k] ELSE fields[k]]

\* line 316: self._fields = results
FieldsAfterUpdate(fields, results) == results

\* line 315: self._updates.clear()
UpdatesAfterUpdate(updates) == EmptyMap

\* lines 310-316: update() sends the buffered updates; the server answers.
UpdateOk(results) ==
  /\ HasUpdates(pending)
  /\ ocalls' = <<Call("PUT", selfUrl, pending, results)>>
  /\ pending' = UpdatesAfterUpdate(pending)
  /\ committed' = FieldsAfterUpdate(committed, results)
  /\ op' = [name |-> "update", field |-> "", outcome |-> "ok",
            result |-> NoValue]
  /\ UNCHANGED <<writeable, single, ninfl, traced, unrecognized>>
  /\ UNCHANGED notO

\* mutant: the updates are cleared before the transport is called.
UpdatesAfterFailure_Cleared(updates) == EmptyMap

\* line 314 raises: lines 315-316 are not reached.
UpdatesAfterFailure(updates) == updates

\* lines 310-314: the transport raises during update().
UpdateRaises ==
  /\ HasUpdates(pending)
  /\ ocalls' = <<Call("PUT", selfUrl, pending, EmptyMap)>>
  /\ pending' = UpdatesAfterFailure(pending)
  /\ op' = [name |-> "update", field |-> "", outcome |-> "Transport",
            result |-> NoValue]
  /\ UNCHANGED <<writeable, single, committed, ninfl, traced, unrecognized>>
  /\ UNCHANGED notO

\* lines 302-303: delete(); the transport answers or raises.
Delete(outcome) ==
  /\ ocalls' = <<Call("DELETE", selfUrl, EmptyMap, EmptyMap)>>
  /\ op' = [name |-> "delete", field |-> "", outcome |-> outcome,
            result |-> NoValue]
  /\ UNCHANGED <<writeable, single, committed, pending, ninfl, traced, unrecognized>>
  /\ UNCHANGED notO

\* lines 270-272: the URL refresh enumerates
RefreshUrl(url, n) == AccessorUrl(url \o <<"/">> \o NameStr(n))

\* lines 274-279: the fetch refresh issues
RefreshCall(n, isSingle) ==
  IF isSingle
  THEN Call("GET", GetUrl(RefreshUrl(selfUrl, n), << >>), EmptyMap, EmptyMap)
  ELSE Call("GET", RefreshUrl(selfUrl, n), EmptyMap, EmptyMap)

\* lines 265-279: refresh(n) fetches and stores the realization.
RefreshOk(n, c, rid) ==
  /\ n \in SubNames
  /\ ocalls' = <<RefreshCall(n, single)>>
  /\ committed' = StoreField(committed, n,
                             Realize(RefreshUrl(selfUrl, n), single, c, rid))
  /\ op' = [name |-> "refresh", field |-> n, outcome |-> "ok",
            result |-> NoValue]
  /\ UNCHANGED <<writeable, single, pending, ninfl, traced, unrecognized>>
  /\ UNCHANGED notO

\* lines 265-279: the transport raises during refresh(n).
RefreshRaises(n) ==
  /\ n \in SubNames
  /\ ocalls' = <<RefreshCall(n, single)>>
  /\ op' = [name |-> "refresh", field |-> n, outcome |-> "Transport",
            result |-> NoValue]
  /\ UNCHANGED <<writeable, single, committed, pending, ninfl, traced, unrecognized>>
  /\ UNCHANGED notO

\* line 270: refresh of a name that sub_resources does not hold (KeyError).
RefreshKeyError(n) ==
  /\ n \notin SubNames
  /\ ocalls' = << >>
  /\ op' = [name |-> "refresh", field |-> n, outcome |-> "KeyError",
            result |-> NoValue]
  /\ UNCHANGED <<writeable, single, committed, pending, ninfl, traced, unrecognized>>
  /\ UNCHANGED notO

\* lines 209-217: an object built from a record the server sent.
ObjectInit ==
  /\ writeable \in WriteableTables
  /\ single \in BOOLEAN
  /\ committed \in ServerRecords
  /\ pending = EmptyMap
  /\ op = NoOp
  /\ ocalls = << >>
  /\ ninfl = 0
  /\ traced = FALSE /\ unrecognized = {}
  \* no get_all generator is exercised
  /\ N = 0 /\ argStart = 1 /\ argLimit = 0 /\ argMaxPerPage = 1
  /\ start = 0 /\ requested_items = 0 /\ max_per_page = 0
  /\ current_page = 0 /\ offset = 0 /\ page_index = 0
  /\ pagebuf = << >> /\ gpc = "idle" /\ yielded = << >> /\ fetches = << >>
  /\ signal = "none"
  \* the accessor of SpecAccessor is not exercised
  /\ baseUrl = << >>
  /\ aobj = NoObj
  /\ aop = [name |-> "init", arg |-> None]
  /\ acalls = << >>
  /\ aerr = "none"

\* lines 209-217: the same object of a class with list sub-resources, in a
\* run that keeps the history of the writes to unrecognized names.
ObjectTracedInit ==
  /\ writeable \in WriteableTables
  /\ single = FALSE
  /\ committed \in ServerRecords
  /\ pending = EmptyMap
  /\ op = NoOp
  /\ ocalls = << >>
  /\ ninfl = 0
  /\ traced = TRUE /\ unrecognized = {}
  \* no get_all generator is exercised
  /\ N = 0 /\ argStart = 1 /\ argLimit = 0 /\ argMaxPerPage = 1
  /\ start = 0 /\ requested_items = 0 /\ max_per_page = 0
  /\ current_page = 0 /\ offset = 0 /\ page_index = 0
  /\ pagebuf = << >> /\ gpc = "idle" /\ yielded = << >> /\ fetches = << >>
  /\ signal = "none"
  \* the accessor of SpecAccessor is not exercised
  /\ baseUrl = << >>
  /\ aobj = NoObj
  /\ aop = [name |-> "init", arg |-> None]
  /\ acalls = << >>
  /\ aerr = "none"

ObjectNextNoRefresh ==
  \/ \E n \in Names : Read(n)
  \/ \E n \in SubNames, c \in Contents, rid \in RecordIds : ReadInflates(n, c, rid)
  \/ \E n \in SubNames : ReadInflateRaises(n)
  \/ \E n \in Names, v \in Written : Write(n, v)
  \/ UpdateNoop
  \/ \E results \in ServerRecords : UpdateOk(results)
  \/ UpdateRaises
  \/ \E outcome \in {"ok", "Transport"} : Delete(outcome)

ObjectNext ==
  \/ \E n \in Names : Read(n)
  \/ \E n \in SubNames, c \in Contents, rid \in RecordIds : ReadInflates(n, c, rid)
  \/ \E n \in SubNames : ReadInflateRaises(n)
  \/ \E n \in Names, v \in Written : Write(n, v)
  \/ UpdateNoop
  \/ \E results \in ServerRecords : UpdateOk(results)
  \/ UpdateRaises
  \/ \E outcome \in {"ok", "Transport"} : Delete(outcome)
  \/ \E n \in SubNames, c \in Contents, rid \in RecordIds : RefreshOk(n, c, rid)
  \/ \E n \in SubNames : RefreshRaises(n)
  \/ \E n \in Names : RefreshKeyError(n)

\* =====================================================================
\* Specifications
\* =====================================================================

SpecGetAll == GetAllInit /\ [][GetAllNext]_vars

\* The consumer keeps asking (Begin, Resume), the interpreter runs the
\* generator between two yields and the transport answers every request.
SpecGetAllFair ==
  GetAllInit /\ [][GetAllNext]_vars /\ WF_vars(GetAllNext)

SpecAccessor == AccessorInit /\ [][AccessorNext]_vars

SpecObject == ObjectInit /\ [][ObjectNext]_vars

\* The object with the history of its unrecognized writes kept.
SpecObjectTraced == ObjectTracedInit /\ [][ObjectNext]_vars

\* The object under every operation but refresh.
SpecObjectNoRefresh == ObjectInit /\ [][ObjectNextNoRefresh]_vars

\* ---------------------------------------------------------------- claims

\* The records get_all is to yield: start, start+1, ... up to the limit or
\* the end of the collection.
ExpectedItems(n, st, lim) ==
  LET hi == IF lim = 0 THEN n ELSE Min(n, st + lim - 1)
  IN  IF st > hi THEN << >> ELSE [i \in 1 .. (hi - st + 1) |-> st + i - 1]

\* C1: whatever the collection size, start, limit and max_per_page, what
\* get_all has yielded so far is always a gap-free, duplicate-free run of
\* the records start, start+1, ... in server order, and a fully consumed
\* enumeration has yielded exactly min(limit, N-start+1) of them (all the
\* remaining ones when limit = 0, none when start > N).
C1_GetAllYieldsExactly ==
  /\ Len(yielded) <= Len(ExpectedItems(N, argStart, argLimit))
  /\ \A i \in 1 .. Len(yielded) : yielded[i] = argStart + i - 1
  /\ gpc = "done" => yielded = ExpectedItems(N, argStart, argLimit)

\* C1 witness: an enumeration that started mid-page, crossed a page
\* boundary and stopped on its limit before the end of the collection.
C1_Witness ==
  /\ gpc = "done"
  /\ WithinPageOffset(start, max_per_page) > 0
  /\ Len(fetches) >= 2
  /\ Len(yielded) = argLimit
  /\ argLimit >= 2
  /\ argStart + argLimit - 1 < N

\* C2 (as amended): get_all(start=5, limit=3, max_per_page=4) over a
\* 10-record collection yields exactly the records 5, 6, 7.
C2_YieldsFiveSixSeven ==
  (gpc = "done" /\ N = 10 /\ argStart = 5 /\ argLimit = 3 /\ argMaxPerPage = 4)
    => yielded = <<5, 6, 7>>

\* C2 witness: that enumeration fully consumed.
C2_Witness ==
  gpc = "done" /\ N = 10 /\ argStart = 5 /\ argLimit = 3 /\ argMaxPerPage = 4
    /\ Len(yielded) = 3

\* C2 as stated: the same call yields the records 6, 7, 8.
C2_YieldsSixSevenEight ==
  (gpc = "done" /\ N = 10 /\ argStart = 5 /\ argLimit = 3 /\ argMaxPerPage = 4)
    => yielded = <<6, 7, 8>>

\* C8 as stated: delete() on an object obtained from the accessor (by get,
\* by get_all, or by create with or without a parent_id) issues its DELETE
\* to the URL that delete_from_id(obj.id) of that accessor targets.
C8_DeleteSameUrlAsDeleteFromId ==
  aop.name = "obj.delete"
    => acalls = <<[verb |-> "DELETE", url |-> DeleteFromIdUrl(baseUrl, aobj.id)]>>

\* A base URL of the form "/A/B": an empty first part and two non-empty
\* segments.
IsParentSubUrl(u) ==
  LET parts == Split(u, "/")
  IN  Len(parts) = 3 /\ parts[1] = << >> /\ parts[2] # << >> /\ parts[3] # << >>

\* C9 as stated: create on an accessor whose base URL is "/A/B" issues
\* exactly one write, to "/A/p/B" for every supplied parent_id p and to the
\* base URL itself when no parent_id is supplied.
C9_CreateWritesUnderParent ==
  (aop.name = "create" /\ IsParentSubUrl(baseUrl))
    => LET parts == Split(baseUrl, "/")
           target == IF aop.arg = None
                     THEN baseUrl
                     ELSE <<"/">> \o parts[2] \o <<"/">> \o Str(aop.arg)
                            \o <<"/">> \o parts[3]
       IN  acalls = <<[verb |-> "POST", url |-> target]>>

\* The number of '/'-delimited segments of a URL.
SegmentCount(u) == 1 + Cardinality({i \in 1 .. Len(u) : u[i] = "/"})

\* C10 (as amended): create with a non-zero parent_id builds its target URL
\* and issues its write exactly when the base URL has exactly 3
\* '/'-delimited segments, and fails with MalformedUrlError for every other
\* base URL (4 or more segments included); a failing create has issued no
\* transport call; a parent_id of 0 or None never fails this way.
C10_ExactlyThreeSegments ==
  aop.name = "create" =>
    /\ (aop.arg # None /\ aop.arg # 0)
         => (aerr = "MalformedUrl" <=> SegmentCount(baseUrl) # 3)
    /\ (aop.arg = None \/ aop.arg = 0) => aerr # "MalformedUrl"
    /\ aerr = "MalformedUrl" => acalls = << >>
    /\ aerr # "MalformedUrl" => Len(acalls) = 1

\* C10 witness: create with a parent_id fails on a base URL of more than 3
\* segments, before any transport call.
C10_Witness ==
  /\ aop.name = "create"
  /\ aop.arg = 1
  /\ SegmentCount(baseUrl) > 3
  /\ aerr = "MalformedUrl"
  /\ acalls = << >>

\* C10 as stated (for a non-zero parent_id): create succeeds for every base
\* URL of at least 3 segments and fails with MalformedUrlError for every
\* other one, without a transport call.
C10_AtLeastThreeSegments ==
  (aop.name = "create" /\ aop.arg # None /\ aop.arg # 0) =>
    /\ aerr = "MalformedUrl" <=> SegmentCount(baseUrl) < 3
    /\ aerr = "MalformedUrl" => acalls = << >>

\* What a read of field n returns right after the server answered an
\* update with `reply`: the reply's value (its dotted view for a dict, the
\* realization of its reference for a sub-resource), and UnknownFieldError
\* for a field the reply does not hold.
ReadsFromReply(reply, o) ==
  IF o.field \notin DOMAIN reply
  THEN o.outcome = "UnknownField"
  ELSE LET val == reply[o.field]
       IN  \/ /\ ~IsDict(val)
              /\ o.outcome = "value" /\ o.result = val
           \/ /\ val.kind = "dict" /\ o.field \notin SubNames
              /\ o.outcome = "value" /\ o.result = Mapping(val)
           \/ /\ IsDict(val) /\ o.field \in SubNames
              /\ \/ o.outcome = "Transport"
                 \/ /\ o.outcome = "value"
                    /\ IsRealization(o.result)
                    /\ \E c \in Contents, rid \in RecordIds :
                         o.result = Realize(val.url, single, c, rid)

C4_FailedUpdateKeepsState ==
  [][ /\ (op'.name = "update" /\ op'.outcome = "Transport") =>
           /\ pending # EmptyMap
           /\ pending' = pending
           /\ committed' = committed
           /\ ocalls' = <<Call("PUT", selfUrl, pending, EmptyMap)>>
      /\ (op.name = "update" /\ op.outcome = "Transport"
            /\ op'.name = "update") =>
           /\ op'.outcome # "noop"
           /\ ocalls'[1].verb = "PUT"
           /\ ocalls'[1].url = ocalls[1].url
           /\ ocalls'[1].payload = ocalls[1].payload
    ]_vars

\* C4 witness: an update() that the transport failed, with two buffered
\* fields still in place.
C4_Witness ==
  /\ op.name = "update" /\ op.outcome = "Transport"
  /\ DOMAIN pending = {"name", "sub"}
  /\ ocalls[1].payload = pending

\* C5 (as amended): a write to a read-only name never changes _updates or
\* _fields, and it raises ReadOnlyFieldError exactly when the name is a
\* key of _fields.
C5_ReadOnlyWriteOfKnownField ==
  [][ (op'.name = "write" /\ op'.field \in read_only) =>
        /\ pending' = pending
        /\ committed' = committed
        /\ op'.outcome = "ReadOnly" <=> op'.field \in DOMAIN committed
    ]_vars

\* C5 witness: a write to a read-only field of the record was refused while
\* other updates were buffered.
C5_Witness ==
  /\ op.name = "write" /\ op.field = "ro" /\ op.outcome = "ReadOnly"
  /\ "ro" \in DOMAIN committed
  /\ pending # EmptyMap

\* C5 as stated: a write to any read-only name raises ReadOnlyFieldError
\* and leaves _updates and _fields unchanged.
C5_ReadOnlyWriteAlwaysRaises ==
  [][ (op'.name = "write" /\ op'.field \in read_only) =>
        /\ op'.outcome = "ReadOnly"
        /\ pending' = pending
        /\ committed' = committed
    ]_vars

C11_EmptyResponseEndsQuietly ==
  [][ /\ signal' = "empty" =>
           /\ gpc' \in {"while", "done"}
           /\ requested_items' = 0
           /\ yielded' = yielded
      /\ signal = "empty" =>
           /\ fetches' = fetches
           /\ signal' = "empty"
      /\ gpc' = "raised" => signal' = "raised"
      /\ (signal' = "empty" /\ Len(fetches') = 1) => yielded' = << >>
    ]_vars

\* C11 witness: an enumeration that yielded items, met EmptyResponse on a
\* later page and ended normally.
C11_Witness ==
  /\ gpc = "done"
  /\ signal = "empty"
  /\ Len(fetches) >= 2
  /\ Len(yielded) >= 2

\* The page that holds the record at 1-based position i.
PageOf(i) == ((i - 1) \div max_per_page) + 1

\* The consumer has asked for an item and the generator is running for it.
ConsumerWaiting == gpc \in {"while", "for"}

\* The pages touched once k items have been handed over: the page of the
\* start-th record up to the page of the k-th item, each once, in order.
PagesUpTo(k) ==
  [i \in 1 .. (PageOf(argStart + k - 1) - PageOf(argStart) + 1) |->
     PageOf(argStart) + i - 1]

C12_Suspended ==
  /\ gpc = "created" => fetches = << >>
  /\ gpc = "yield" => fetches = PagesUpTo(Len(yielded))

\* C12: pages are fetched on demand. Nothing is fetched before the consumer
\* asks for the first item; a page is fetched only while the consumer is
\* waiting for an item and every record of the page before it has been
\* yielded or skipped; and whenever the generator is suspended after its
\* k-th item the fetches made are exactly the pages up to the one that
\* holds the k-th item.
C12_PagesFetchedOnDemand ==
  [][ /\ C12_Suspended'
      /\ fetches' # fetches =>
           /\ ConsumerWaiting
           /\ pagebuf = << >>
           /\ fetches # << >> =>
                page_index = Len(ServerPage(N, current_page, max_per_page))
    ]_vars

\* C12 witness: the consumer holds its third item, taken from the second
\* page fetched, in the middle of that page, while the collection goes on
\* for at least one more page that has not been fetched.
C12_Witness ==
  /\ gpc = "yield"
  /\ Len(yielded) = 3
  /\ Len(fetches) = 2
  /\ pagebuf # << >>
  /\ N > fetches[Len(fetches)] * max_per_page

\* The last page fetched came back with fewer records than the effective
\* page size.
LastPageShort ==
  /\ fetches # << >>
  /\ signal = "page"
  /\ Len(ServerPage(N, fetches[Len(fetches)], max_per_page)) < max_per_page

\* C13: the effective page size is min(maxPerPage, 250, requestedItems),
\* and a fetched page with fewer records than that is the last one: once
\* the generator is through with it nothing is left to request, so that it
\* ends, and no page is ever fetched after a short one, even when fewer
\* than limit items have been yielded.
C13_ShortPageIsLast ==
  [][ /\ gpc' \notin {"created", "idle"} =>
           max_per_page' =
             Min(argMaxPerPage, Min(ApiPageCap, RequestedItems(argLimit)))
      /\ (LastPageShort' /\ gpc' = "while") => requested_items' = 0
      /\ LastPageShort => fetches' = fetches
    ]_vars

\* C13 witness: an enumeration that ended on a short page, the second one
\* fetched, with fewer items yielded than the limit asked for.
C13_Witness ==
  /\ gpc = "done"
  /\ LastPageShort
  /\ Len(fetches) = 2
  /\ yielded # << >>
  /\ Len(yielded) < argLimit

\* The enumeration is over: StopIteration, or a transport error raised.
Ended == gpc \in {"done", "raised"}

\* C14: for every finite collection, start >= 1, limit >= 0 and
\* maxPerPage >= 1, a consumer that keeps asking reaches the end of the
\* enumeration, and does so after finitely many page fetches: never more
\* than one per full page of the collection plus one.
C14_Terminates ==
  /\ [](gpc # "created" => Len(fetches) <= (N \div max_per_page) + 1)
  /\ <>Ended

\* C14 witness: an enumeration that reached its end after three fetches.
C14_Witness ==
  /\ gpc = "done"
  /\ Len(fetches) = 3
  /\ Len(yielded) >= 3

\* The step is a successful refresh.
RefreshDone(o) == o.name = "refresh" /\ o.outcome = "ok"

\* refresh(f) fetched once and put what it fetched in _fields[f], whatever
\* was there, leaving the other fields and the updates alone.
C15_RefreshStores ==
  RefreshDone(op') =>
    /\ ocalls' = <<RefreshCall(op'.field, single)>>
    /\ \E c \in Contents, rid \in RecordIds :
         committed' = Put(committed, op'.field,
                          Realize(RefreshUrl(selfUrl, op'.field), single, c, rid))
    /\ IsRealization(committed'[op'.field])
    /\ pending' = pending

PayloadNames(calls) ==
  UNION {DOMAIN calls[i].payload : i \in {j \in DOMAIN calls : calls[j].verb = "PUT"}}

\* A write to a name that _fields does not hold changes neither map and
\* calls nothing.
C16_UnrecognizedWriteFrame ==
  (op'.name = "write" /\ op'.field \notin DOMAIN committed) =>
    /\ op'.outcome = "ordinary"
    /\ pending' = pending
    /\ committed' = committed
    /\ ocalls' = << >>

\* C16 (amended): a write to a name that is not a key of _fields changes
\* neither _updates nor _fields, and is never sent: a name enters _updates
\* only through a write made while it is a key of _fields, and update()
\* sends exactly _updates. (The name itself may be sent later, once an
\* update() response or refresh() has made it a key and it is written
\* again.)
C16_UnrecognizedWriteNeverSent ==
  [][ /\ C16_UnrecognizedWriteFrame
      /\ \A n \in (DOMAIN pending') \ (DOMAIN pending) :
           /\ op'.name = "write"
           /\ op'.field = n
           /\ n \in DOMAIN committed
      /\ \A i \in DOMAIN ocalls' :
           ocalls'[i].verb = "PUT" => ocalls'[i].payload = pending
    ]_vars

\* C16 witness: after a write to an unrecognized name, an update() went
\* out whose payload does not hold that name.
C16_Witness ==
  /\ op.name = "update"
  /\ op.outcome = "ok"
  /\ unrecognized # {}
  /\ PayloadNames(ocalls) # {}
  /\ PayloadNames(ocalls) \cap unrecognized = {}

\* C16 as stated: a name written while it was not a key of _fields never
\* appears in the payload of a later update().
C16_NameNeverInLaterPayload ==
  [][ /\ C16_UnrecognizedWriteFrame
      /\ PayloadNames(ocalls') \cap unrecognized = {}
    ]_vars

\* C17: update() with nothing buffered issues no network call and leaves
\* _updates and _fields as they are, whatever preceded it; and update()
\* goes to the network only when something is buffered.
C17_EmptyUpdateIsNoop ==
  [][ /\ (op'.name = "update" /\ pending = EmptyMap) =>
           /\ op'.outcome = "noop"
           /\ ocalls' = << >>
           /\ pending' = pending
           /\ committed' = committed
      /\ (op'.name = "update" /\ pending # EmptyMap) => ocalls' # << >>
    ]_vars

\* C17 witness: an update() that did nothing, on an object that has read
\* and cached an inflated sub-resource before.
C17_Witness ==
  /\ op.name = "update"
  /\ op.outcome = "noop"
  /\ ocalls = << >>
  /\ ninfl >= 1
  /\ "sub" \in DOMAIN committed
  /\ IsRealization(committed["sub"])
  /\ "name" \in DOMAIN committed

\* C18: refresh(f) fetches from the URL that the first read of f would
\* fetch from, the resource URL of the raw mapping stored for f, for every
\* resource URL the server embeds.
C18_RefreshUsesInflationUrl ==
  [][ ( /\ op'.name = "refresh"
        /\ op'.outcome \in {"ok", "Transport"}
        /\ op'.field \in DOMAIN committed
        /\ IsDict(committed[op'.field]) ) =>
        ocalls' = <<InflationCall(committed[op'.field], single)>>
    ]_vars

\* C19: in every reachable state, every key of _updates is a key of
\* _fields, is not read-only, and is in the writeable table whenever that
\* table is not empty.
C19_PendingKeysAreWritableFields ==
  \A n \in DOMAIN pending :
    /\ n \in DOMAIN committed
    /\ n \notin read_only
    /\ writeable # {} => n \in writeable

\* C19 witness: two names are buffered under an empty writeable table, and
\* the update() that tried to send them has just failed.
C19_Witness ==
  /\ op.name = "update"
  /\ op.outcome = "Transport"
  /\ writeable = {}
  /\ DOMAIN pending = {"name", "sub"}
  /\ IsRealization(committed["sub"])

\* C20: the object cached by inflating a single sub-resource field has the
\* URL it was fetched from as its own URL, so that its update() and
\* delete() address the record the inflation read.
C20_SingleObjectUrlIsFetchUrl ==
  ( /\ op.name = "read"
    /\ op.outcome = "value"
    /\ op.result.kind = "object"
    /\ ocalls # << >> ) =>
    op.result.url = ocalls[1].url

====
